---- MODULE Spec2Model ----
(***************************************************************************)
(* Model of the detection engine of src/index.js (class WalletTracker):    *)
(* the per-signature body of the wallet poller, the transaction classifier *)
(* extractTokenInfoFromTx, the aggregator processTransaction with its      *)
(* alert dispatch sendAlert, the wallet poller startMonitoringWallet, and  *)
(* the retrying caller callWithBackoff with the endpoint pool.             *)
(*                                                                         *)
(* SOL amounts are counted in tenths of a SOL (0.5 SOL = 5), token amounts *)
(* in whole ui units, and the clock in milliseconds as Date.now() is.      *)
(* A window object lives in `windows` under an id, as the object that      *)
(* recentTransactions.get(key) returns lives on the heap: a suspended      *)
(* processTransaction keeps its reference when the key is deleted or set   *)
(* anew.                                                                   *)
(*                                                                         *)
(* Spec          pollers run their loop body one at a time, the clock and  *)
(*               the settings change in between                            *)
(* SpecFixed     as Spec, with settings that no step changes               *)
(* SpecConc      the loop bodies of the pollers interleave at their awaits *)
(* SpecClassify  the classifier applied to a bounded set of transactions   *)
(* SpecPoller    startMonitoringWallet and the interval callbacks it       *)
(*               installs, with deleteWallet, pause and resume             *)
(* SpecShared    the pollers of two subscribers that track one address     *)
(* SpecQuiet     the poller of one subscriber, with no pause, no failing   *)
(*               call and no overlapping ticks                             *)
(* SpecRpc       callWithBackoff and rotateRpcEndpoint over the endpoint   *)
(*               pool                                                      *)
(***************************************************************************)
EXTENDS Integers, Sequences, FiniteSets, TLC

VARIABLES
    userSettings,        \* chatId -> [solThreshold, requiredWallets]
    recentTransactions,  \* key <<chatId, tokenAddress>> -> window object id
    windows,             \* window object id -> [buyers, timestamp, firstSeen]
    now,                 \* Date.now()
    pc,                  \* poller -> where its per-signature body stands
    tokenInfo,           \* poller -> the tokenInfo it holds
    held,                \* poller -> what its suspended processTransaction holds
    hist,                \* window object id -> history of that window instance
    last,                \* what the most recent step of the engine did
    isPaused,            \* chatId -> settings.isPaused
    trackedWallets,      \* chatId -> the addresses in settings.wallets
    lastProcessedSignatures, \* address -> cursor (0: no entry); one Map for all
    monitoringStartTimes,    \* address -> start time (-1: no entry); one object
    monitoringIntervals, \* <<chatId, address>> -> registered task (0: none)
    tasks,               \* task -> a startMonitoringWallet call and its interval
    ticks,               \* slot -> a running invocation of the interval callback
    chain,               \* address -> the number of signatures it has made
    fetchedUpTo,         \* <<chatId, address>> -> newest signature it asked the body of
    prevScan,            \* <<chatId, address>> -> the list its last tick scanned
    plast,               \* what the most recent step of a poller was
    rpcEndpoints,        \* the endpoint list: TRUE where a connection can be built
    currentRpcIndex,     \* index of the active endpoint, from 0
    connection,          \* index of the endpoint this.connection was built for
    rpcStats,            \* [rateLimitCount, totalRequests, totalRotations]
    calls,               \* caller -> its callWithBackoff invocation
    strikeRun,           \* rate-limit failures in a row, no rotation since
    rlast                \* what the most recent step of callWithBackoff did

aggVars == <<userSettings, recentTransactions, windows, now, pc, tokenInfo, held,
             hist, last>>

pollerVars == <<isPaused, trackedWallets, lastProcessedSignatures,
                monitoringStartTimes, monitoringIntervals, tasks, ticks, chain,
                fetchedUpTo, prevScan, plast>>

rpcVars == <<rpcEndpoints, currentRpcIndex, connection, rpcStats, calls,
             strikeRun, rlast>>

vars == <<aggVars, pollerVars, rpcVars>>

----------------------------------------------------------------------------
(* Bounds of the model *)

\* the clock advances in steps of TimeStep ms (half an hour), MaxSteps times
\* at most
TimeStep == 1800000
MaxSteps == 3
\* the stored windows hold at most MaxSignals signals together
MaxSignals == 3
\* requiredWallets is set to 1..MaxRequired
MaxRequired == 3
\* token amounts of a balance entry range over 0..MaxAmt
MaxAmt == 2
\* the post-state token balance list of a classified transaction has at most
\* MaxPost entries
MaxPost == 3

(* Program constants *)

\* defaultSettings.solThreshold, 0.5 SOL
DefaultThreshold == 5
\* defaultSettings.requiredWallets
DefaultRequired == 3
\* the age in ms after which the cleanup removes a window
ExpiryMs == 3600000

\* an address makes at most MaxChain signatures
MaxChain == 2

\* the signature fetch of a tick asks for the 2 most recent signatures
PollLimit == 2

Chats == {"c1", "c2"}
Wallets == {"w1", "w2", "w3"}
Mints == {"X", "Y"}
\* one periodic task per (subscriber, tracked address)
Pollers == {<<"c1", "w1">>, <<"c1", "w2">>, <<"c1", "w3">>, <<"c2", "w1">>}
\* the values setThreshold is called with, in tenths of a SOL
Thresholds == {5, 8}
\* the pre and post native balance a transaction shows for account 0, in
\* tenths of a SOL, or <<>> when the balance arrays are missing
Natives == {<<>>, <<5, 0>>, <<5, 3>>, <<0, 5>>, <<8, 0>>}

Max(a, b) == IF a >= b THEN a ELSE b

EmptyMap == [x \in {} |-> 0]

\* m with key k set to v, as Map.prototype.set does
MapSet(m, k, v) == [x \in DOMAIN m \cup {k} |-> IF x = k THEN v ELSE m[x]]

\* a delete that is not done
MapDeleteKeep(m, k) == m

\* m without key k, as Map.prototype.delete does
MapDelete(m, k) == [x \in DOMAIN m \ {k} |-> m[x]]

RECURSIVE SumOver(_, _)
SumOver(f, S) ==
    IF S = {} THEN 0
    ELSE LET x == CHOOSE y \in S : TRUE IN f[x] + SumOver(f, S \ {x})

\* Array.from(buyers.values()).reduce((sum, amount) => sum + amount, 0)
SumValues(f) == SumOver(f, DOMAIN f)

----------------------------------------------------------------------------
(* TransactionClassifier: extractTokenInfoFromTx *)

\* the result null
NoInfo == [valid |-> FALSE, tokenAddress |-> "null", tokenAmount |-> 0, solAmount |-> 0]

\* the balance change taken without its sign
NetSolMoved(tx) ==
    IF tx.native = <<>> THEN 0
    ELSE Max(tx.native[1] - tx.native[2], tx.native[2] - tx.native[1])

\* 1) net SOL spent: Math.max(0, preSOL - postSOL), 0 without balance arrays
NetSolSpent(tx) ==
    IF tx.native = <<>> THEN 0 ELSE Max(0, tx.native[1] - tx.native[2])

\* 3) the map mint -> pre amount of the balances the wallet owns; a later
\* entry of the same mint overwrites an earlier one
RECURSIVE BuildPreBalanceMap(_, _, _)
BuildPreBalanceMap(bals, walletAddress, m) ==
    IF bals = <<>> THEN m
    ELSE LET bal == Head(bals) IN
         BuildPreBalanceMap(Tail(bals), walletAddress,
             IF bal.owner = walletAddress THEN MapSet(m, bal.mint, bal.ui) ELSE m)

\* preBalanceMap.get(mint) || 0
PreAmountOf(m, mint) == IF mint \in DOMAIN m THEN m[mint] ELSE 0

\* a comparison that lets a later equal increase win
LargerOrEqual(diff, tokenAmount) == diff >= tokenAmount

\* diff > tokenAmount
StrictlyLarger(diff, tokenAmount) == diff > tokenAmount

\* 4) the loop over postTokenBalances; best = [tokenAddress, tokenAmount]
RECURSIVE LargestIncrease(_, _, _, _)
LargestIncrease(bals, walletAddress, preBalanceMap, best) ==
    IF bals = <<>> THEN best
    ELSE LET bal == Head(bals)
             diff == bal.ui - PreAmountOf(preBalanceMap, bal.mint)
         IN LargestIncrease(Tail(bals), walletAddress, preBalanceMap,
                IF bal.owner = walletAddress /\ StrictlyLarger(diff, best.tokenAmount)
                THEN [tokenAddress |-> bal.mint, tokenAmount |-> diff]
                ELSE best)

\* a threshold test that also rejects a spend equal to the threshold
BelowOrAtThreshold(solAmount, chatId) == solAmount <= userSettings[chatId].solThreshold

\* (mutant) no transaction is below the threshold
BelowThresholdNever(solAmount, chatId) == FALSE

\* 2) solAmount < settings.solThreshold
BelowThreshold(solAmount, chatId) == solAmount < userSettings[chatId].solThreshold

extractTokenInfoFromTx(tx, chatId, walletAddress) ==
    LET solAmount == NetSolSpent(tx)
        preBalanceMap == BuildPreBalanceMap(tx.preTokenBalances, walletAddress, EmptyMap)
        best == LargestIncrease(tx.postTokenBalances, walletAddress, preBalanceMap,
                                [tokenAddress |-> "null", tokenAmount |-> 0])
    IN IF BelowThreshold(solAmount, chatId) THEN NoInfo
       ELSE [valid |-> TRUE,
             tokenAddress |-> IF best.tokenAddress = "null" THEN "unknown"
                              ELSE best.tokenAddress,
             tokenAmount |-> best.tokenAmount,
             solAmount |-> solAmount]

\* how the metadata lookups of step 7 end: the symbol is found ("named"),
\* getTokenMetadata falls back to its basic info ("fallback"), or one of the
\* three lookups throws ("throws")
Enrichments == {"named", "fallback", "throws"}

\* (mutant) a lookup that does not get the metadata makes the result null
EnrichOrNull(result, enrichment) ==
    IF enrichment = "named"
    THEN [info |-> result, tokenName |-> "symbol"]
    ELSE [info |-> NoInfo, tokenName |-> "Unknown"]

\* 7) with a mint found, the lookups give the result its names; what they
\* throw is caught and the result is returned as it was built in step 6,
\* tokenName 'Unknown'
Enrich(result, enrichment) ==
    [info |-> result,
     tokenName |-> IF result.valid /\ result.tokenAddress # "unknown"
                      /\ enrichment = "named"
                   THEN "symbol" ELSE "Unknown"]

----------------------------------------------------------------------------
(* History kept beside the program state, for stating the properties *)

\* of a window instance: how often sendAlert was invoked with it, which
\* wallets signalled into it, the spend ingested into it, when the last
\* signal reached it and how many signals it took
NewHist == [fired |-> 0, wallets |-> {}, sum |-> 0, lastUpdated |-> 0, signals |-> 0]

NoTx == [native |-> <<>>, preTokenBalances |-> <<>>, postTokenBalances |-> <<>>]

LastNone ==
    [op |-> "none", poller |-> <<>>, key |-> <<>>, created |-> FALSE,
     wallet |-> "none", spent |-> 0, buyers |-> EmptyMap, required |-> 0,
     threshold |-> 0, invoked |-> FALSE, fired |-> 0, swept |-> {},
     payload |-> EmptyMap, total |-> 0, info |-> NoInfo, tx |-> NoTx,
     delivered |-> TRUE, tokenName |-> "Unknown", enrichment |-> "none"]

----------------------------------------------------------------------------
(* State after construction *)

\* this.defaultSettings, copied by getUserSettings on first use
defaultSettings == [solThreshold |-> DefaultThreshold, requiredWallets |-> DefaultRequired]

NoHeld == [ref |-> 0, key |-> <<>>, total |-> 0]

\* the subscribers and the address whose pollers are modelled
PollAddresses == {"w1"}
PollPairs == {<<"c1", "w1">>}

\* the pairs of two subscribers that track the same address
SharedPairs == {<<"c1", "w1">>, <<"c2", "w1">>}

\* the calls of startMonitoringWallet of a run, and the invocations of the
\* interval callbacks that are in progress at the same time
Starts == {1, 2}
Invocations == {1, 2}

NoTick == [pair |-> <<>>, start |-> 0, phase |-> "free", newSigs |-> <<>>,
           pending |-> <<>>]

\* no list scanned, or the cursor has changed since
NoScan == <<0, 0, 0>>

\* no wallet tracked, no task, an empty chain
InitPoller ==
    /\ isPaused = [c \in Chats |-> FALSE]
    /\ trackedWallets = [c \in Chats |-> {}]
    /\ lastProcessedSignatures = [a \in PollAddresses |-> 0]
    /\ monitoringStartTimes = [a \in PollAddresses |-> -1]
    /\ monitoringIntervals = [q \in SharedPairs |-> 0]
    /\ tasks = <<>>
    /\ ticks = [s \in Invocations |-> NoTick]
    /\ chain = [a \in PollAddresses |-> 0]
    /\ fetchedUpTo = [q \in SharedPairs |-> 0]
    /\ prevScan = [q \in SharedPairs |-> NoScan]
    /\ plast = "none"

\* the tasks that call callWithBackoff
Callers == {"k1", "k2"}

NoCall == [state |-> "idle", retries |-> 0, maxRetries |-> 0, invoked |-> 0,
           slept |-> 0, outcome |-> 0, delay |-> 0]

RLastNone == [op |-> "none", caller |-> "none", isRateLimit |-> FALSE,
              before |-> <<>>]

\* what an upstream call throws
Errors == {"429 Too Many Requests", "rate limit exceeded", "ECONNRESET"}

\* error.toString().includes('429') || error.toString().includes('rate limit')
\* || error.message?.includes('429')
IsRateLimit(error) == error \in {"429 Too Many Requests", "rate limit exceeded"}

\* (mutant) the constructor does not look at the length of the list
NoEndpointsIgnored(endpoints) == FALSE

\* this.rpcEndpoints.length === 0
NoEndpoints(endpoints) == Len(endpoints) = 0

\* the pool after the constructor, given the list that its filter has left:
\* the first endpoint active, its connection built, the counters at zero.
\* With no endpoint the constructor throws before it sets the index or
\* builds a connection (-1: not set), and there is no tracker to call.
InitPool(endpoints) ==
    /\ rpcEndpoints = endpoints
    /\ currentRpcIndex = IF NoEndpoints(endpoints) THEN -1 ELSE 0
    /\ connection = IF NoEndpoints(endpoints) THEN -1 ELSE 0
    /\ rpcStats = [rateLimitCount |-> 0, totalRequests |-> 0, totalRotations |-> 0]
    /\ calls = [k \in Callers |-> NoCall]
    /\ strikeRun = 0
    /\ rlast = RLastNone

InitAggregator ==
    /\ userSettings = [c \in Chats |-> defaultSettings]
    /\ recentTransactions = EmptyMap
    /\ windows = EmptyMap
    /\ now = 0
    /\ pc = [p \in Pollers |-> "idle"]
    /\ tokenInfo = [p \in Pollers |-> NoInfo]
    /\ held = [p \in Pollers |-> NoHeld]
    /\ hist = EmptyMap
    /\ last = LastNone

Init ==
    /\ InitAggregator
    /\ InitPoller
    /\ InitPool(<<TRUE, TRUE>>)

----------------------------------------------------------------------------
(* Front-end writes of the subscriber settings, and the clock *)

setThreshold(chatId, newThreshold) ==
    /\ newThreshold > 0
    /\ userSettings[chatId].solThreshold # newThreshold
    /\ userSettings' = [userSettings EXCEPT ![chatId].solThreshold = newThreshold]
    /\ last' = LastNone
    /\ UNCHANGED <<recentTransactions, windows, now, pc, tokenInfo, held, hist>>
    /\ UNCHANGED <<pollerVars, rpcVars>>

setWalletCount(chatId, newCount) ==
    /\ newCount > 0
    /\ userSettings[chatId].requiredWallets # newCount
    /\ userSettings' = [userSettings EXCEPT ![chatId].requiredWallets = newCount]
    /\ last' = LastNone
    /\ UNCHANGED <<recentTransactions, windows, now, pc, tokenInfo, held, hist>>
    /\ UNCHANGED <<pollerVars, rpcVars>>

\* time passes; Date.now() is read at window creation and by the cleanup
Tick ==
    /\ now + TimeStep <= MaxSteps * TimeStep
    /\ now' = now + TimeStep
    /\ last' = LastNone
    /\ UNCHANGED <<userSettings, recentTransactions, windows, pc, tokenInfo, held, hist>>
    /\ UNCHANGED <<pollerVars, rpcVars>>

----------------------------------------------------------------------------
(* SignalAggregator: processTransaction and sendAlert *)

\* the id of a new window object: the least one not in use
NewId == CHOOSE i \in 1..(Cardinality(DOMAIN windows) + 1) : i \notin DOMAIN windows

\* a spend that replaces the wallet's total
AddSpendOverwrite(previousAmount, solAmount) == solAmount

\* previousAmount + solAmount
AddSpend(previousAmount, solAmount) == previousAmount + solAmount

\* (mutant) the alert waits for one buyer more than required
AlertConditionStrict(buyers, totalSolSpentOnToken, settings) ==
    /\ Cardinality(DOMAIN buyers) > settings.requiredWallets
    /\ totalSolSpentOnToken >= settings.solThreshold

\* the alert conditions
AlertCondition(buyers, totalSolSpentOnToken, settings) ==
    /\ Cardinality(DOMAIN buyers) >= settings.requiredWallets
    /\ totalSolSpentOnToken >= settings.solThreshold

\* an age test of one day
ExpiredAfterDay(data, t) == t - data.timestamp > 24 * ExpiryMs

\* the age test of the cleanup loop
Expired(data, t) == t - data.timestamp > ExpiryMs

\* the cleanup loop over all entries of recentTransactions
Cleanup(rt, win, t) ==
    [k \in {x \in DOMAIN rt : ~Expired(win[rt[x]], t)} |-> rt[k]]

\* window objects still reachable: stored, or held by a suspended call
Reachable(rt, hd, pcs) ==
    {rt[k] : k \in DOMAIN rt} \cup
    {hd[p].ref : p \in {q \in Pollers : pcs[q] \in {"alerting", "sending", "failed"}}}

Collect(f, ids) == [i \in DOMAIN f \cap ids |-> f[i]]

\* the entries the cleanup removed, with the time their last signal came
SweptOf(rt1, rt2, hs) ==
    {[key |-> k, lastUpdated |-> hs[rt1[k]].lastUpdated] : k \in DOMAIN rt1 \ DOMAIN rt2}

\* a test that passes every classified transaction on
IsBuyAny(info) == info.valid

\* the poller's test before it calls processTransaction
IsBuy(info) ==
    /\ info.valid
    /\ info.tokenAddress # "unknown"
    /\ info.tokenAmount > 0

\* the signals held in the stored windows
StoredSignals ==
    SumOver([k \in DOMAIN recentTransactions |-> hist[recentTransactions[k]].signals],
            DOMAIN recentTransactions)

\* room left in storage for one more signal (model bound)
HasRoom == StoredSignals < MaxSignals

\* the body of the poller's loop for one fetched transaction: classify it
\* and keep the tokenInfo for processTransaction if it is a buy
pollTransaction(p, tx) ==
    /\ pc[p] = "idle"
    /\ LET info == extractTokenInfoFromTx(tx, p[1], p[2]) IN
         /\ IF IsBuy(info)
            THEN /\ HasRoom
                 /\ pc' = [pc EXCEPT ![p] = "classified"]
                 /\ tokenInfo' = [tokenInfo EXCEPT ![p] = info]
                 /\ last' = [LastNone EXCEPT !.op = "classified", !.poller = p,
                                             !.wallet = p[2], !.info = info,
                                             !.tx = tx]
            ELSE /\ UNCHANGED <<pc, tokenInfo>>
                 /\ last' = [LastNone EXCEPT !.op = "skip", !.poller = p,
                                             !.wallet = p[2], !.info = info,
                                             !.tx = tx]
    /\ UNCHANGED <<userSettings, recentTransactions, windows, now, held, hist>>
    /\ UNCHANGED <<pollerVars, rpcVars>>

\* processTransaction up to the point where it awaits sendAlert, or to its
\* end when the alert conditions do not hold
processTransaction(p) ==
    /\ pc[p] = "classified"
    /\ LET chatId == p[1]
           walletAddress == p[2]
           info == tokenInfo[p]
           settings == userSettings[chatId]
           key == <<chatId, info.tokenAddress>>
           created == key \notin DOMAIN recentTransactions
           id == IF created THEN NewId ELSE recentTransactions[key]
           rt1 == IF created THEN MapSet(recentTransactions, key, id)
                  ELSE recentTransactions
           txData == IF created
                     THEN [buyers |-> EmptyMap, timestamp |-> now, firstSeen |-> now]
                     ELSE windows[id]
           previousAmount == IF walletAddress \in DOMAIN txData.buyers
                             THEN txData.buyers[walletAddress] ELSE 0
           buyers1 == MapSet(txData.buyers, walletAddress,
                             AddSpend(previousAmount, info.solAmount))
           win1 == MapSet(windows, id, [txData EXCEPT !.buyers = buyers1])
           totalSolSpentOnToken == SumValues(buyers1)
           h0 == IF created THEN NewHist ELSE hist[id]
           h1 == [h0 EXCEPT !.wallets = @ \cup {walletAddress},
                            !.sum = @ + info.solAmount,
                            !.lastUpdated = now,
                            !.signals = @ + 1]
           done == [LastNone EXCEPT !.poller = p, !.key = key, !.created = created,
                                    !.wallet = walletAddress, !.spent = info.solAmount,
                                    !.buyers = buyers1,
                                    !.required = settings.requiredWallets,
                                    !.threshold = settings.solThreshold,
                                    !.info = info]
       IN /\ HasRoom
          /\ tokenInfo' = [tokenInfo EXCEPT ![p] = NoInfo]
          /\ IF AlertCondition(buyers1, totalSolSpentOnToken, settings)
             THEN /\ pc' = [pc EXCEPT ![p] = "alerting"]
                  /\ held' = [held EXCEPT ![p] = [ref |-> id, key |-> key,
                                                  total |-> totalSolSpentOnToken]]
                  /\ recentTransactions' = rt1
                  /\ windows' = win1
                  /\ hist' = MapSet(hist, id, [h1 EXCEPT !.fired = @ + 1])
                  /\ last' = [done EXCEPT !.op = "alerting", !.invoked = TRUE,
                                          !.fired = h1.fired + 1]
             ELSE LET hs1 == MapSet(hist, id, h1)
                      rt2 == Cleanup(rt1, win1, now)
                      live == Reachable(rt2, held, pc)
                  IN /\ pc' = [pc EXCEPT ![p] = "idle"]
                     /\ held' = held
                     /\ recentTransactions' = rt2
                     /\ windows' = Collect(win1, live)
                     /\ hist' = Collect(hs1, live)
                     /\ last' = [done EXCEPT !.op = "ingest", !.fired = h1.fired,
                                             !.swept = SweptOf(rt1, rt2, hs1)]
    /\ UNCHANGED <<userSettings, now>>
    /\ UNCHANGED <<pollerVars, rpcVars>>

\* sendAlert once its enrichment lookups have returned: it reads the buyers
\* map it was passed and sends the message; when the message is not
\* delivered, its catch logs the error and it returns as well
sendAlert(p, delivered) ==
    /\ pc[p] = "alerting"
    /\ pc' = [pc EXCEPT ![p] = IF delivered THEN "sending" ELSE "failed"]
    /\ last' = [LastNone EXCEPT !.op = IF delivered THEN "built" ELSE "undelivered",
                                !.delivered = delivered,
                                !.poller = p, !.key = held[p].key,
                                !.payload = windows[held[p].ref].buyers,
                                !.total = held[p].total,
                                !.fired = hist[held[p].ref].fired]
    /\ UNCHANGED <<userSettings, recentTransactions, windows, now, tokenInfo, held,
                   hist>>
    /\ UNCHANGED <<pollerVars, rpcVars>>

\* (mutant) a window whose alert was not delivered stays, to be tried again
AfterAlertRequeue(rt, key, delivered) ==
    IF delivered THEN MapDelete(rt, key) ELSE rt

\* recentTransactions after the alert: sendAlert returns alike whether the
\* message was delivered or not, and the entry of the key is removed
AfterAlert(rt, key, delivered) == MapDelete(rt, key)

\* processTransaction after sendAlert has returned: remove the entry of the
\* key, then the cleanup
processTransactionResume(p) ==
    /\ pc[p] \in {"sending", "failed"}
    /\ LET key == held[p].key
           rt1 == AfterAlert(recentTransactions, key, pc[p] = "sending")
           rt2 == Cleanup(rt1, windows, now)
           pc1 == [pc EXCEPT ![p] = "idle"]
           live == Reachable(rt2, held, pc1)
       IN /\ pc' = pc1
          /\ held' = [held EXCEPT ![p] = NoHeld]
          /\ recentTransactions' = rt2
          /\ windows' = Collect(windows, live)
          /\ hist' = Collect(hist, live)
          /\ last' = [LastNone EXCEPT !.op = "alerted", !.poller = p, !.key = key,
                                      !.invoked = TRUE,
                                      !.delivered = (pc[p] = "sending"),
                                      !.fired = hist[held[p].ref].fired,
                                      !.total = held[p].total,
                                      !.swept = SweptOf(rt1, rt2, hist)]
    /\ UNCHANGED <<userSettings, now, tokenInfo>>
    /\ UNCHANGED <<pollerVars, rpcVars>>

----------------------------------------------------------------------------
(* The transactions the pollers observe *)

Balance(owner, mint, ui) == [owner |-> owner, mint |-> mint, ui |-> ui]

\* wallet w spends s tenths of a SOL and its balance of mint m rises from 0
\* to 1; with m = "none" its balance of X stays 1 while another owner's rises
BuyTx(w, s, m) ==
    [native |-> <<8, 8 - s>>,
     preTokenBalances |-> IF m = "none" THEN <<Balance(w, "X", 1)>> ELSE <<>>,
     postTokenBalances |-> IF m = "none"
                           THEN <<Balance(w, "X", 1), Balance("other", "X", 2)>>
                           ELSE <<Balance(w, m, 1)>>]

\* what the poller of each tracked address sees: the wallets of subscriber c1
\* buy mint X for 0.5 SOL, w1 and w2 also for 0.3 SOL, and w1 also spends
\* 0.5 SOL gaining no token;
\* the wallet of subscriber c2 buys mint Y for 0.5 SOL
PollTxs(p) ==
    IF p[1] = "c1"
    THEN IF p[2] = "w1"
         THEN {BuyTx(p[2], 3, "X"), BuyTx(p[2], 5, "X"), BuyTx(p[2], 5, "none")}
         ELSE IF p[2] = "w2"
         THEN {BuyTx(p[2], 3, "X"), BuyTx(p[2], 5, "X")}
         ELSE {BuyTx(p[2], 5, "X")}
    ELSE {BuyTx(p[2], 5, "Y")}

\* the subscriber whose settings the front-end changes
Operators == {"c1"}

AllIdle == \A q \in Pollers : pc[q] = "idle"

\* signals are ingested one at a time: a poller takes up a transaction only
\* when no other poller is inside its loop body
Next ==
    \/ AllIdle /\ \E p \in Pollers : \E tx \in PollTxs(p) : pollTransaction(p, tx)
    \/ \E p \in Pollers : processTransaction(p)
    \/ \E p \in Pollers : \E d \in BOOLEAN : sendAlert(p, d)
    \/ \E p \in Pollers : processTransactionResume(p)
    \/ \E c \in Operators : \E t \in Thresholds : setThreshold(c, t)
    \/ \E c \in Operators : \E n \in 1..MaxRequired : setWalletCount(c, n)
    \/ Tick

Spec == Init /\ [][Next]_vars

----------------------------------------------------------------------------
(* The aggregator of a subscriber whose settings stay as the front-end left  *)
(* them before the first signal                                              *)

\* subscriber c1 has set its threshold and its wallet count, subscriber c2
\* has the defaults
InitFixed ==
    /\ \E t \in Thresholds : \E n \in 1..MaxRequired :
          userSettings = [c \in Chats |->
              IF c \in Operators
              THEN [solThreshold |-> t, requiredWallets |-> n]
              ELSE defaultSettings]
    /\ recentTransactions = EmptyMap
    /\ windows = EmptyMap
    /\ now = 0
    /\ pc = [p \in Pollers |-> "idle"]
    /\ tokenInfo = [p \in Pollers |-> NoInfo]
    /\ held = [p \in Pollers |-> NoHeld]
    /\ hist = EmptyMap
    /\ last = LastNone
    /\ InitPoller
    /\ InitPool(<<TRUE, TRUE>>)

\* signals ingested one at a time, and the clock
NextFixed ==
    \/ AllIdle /\ \E p \in Pollers : \E tx \in PollTxs(p) : pollTransaction(p, tx)
    \/ \E p \in Pollers : processTransaction(p)
    \/ \E p \in Pollers : \E d \in BOOLEAN : sendAlert(p, d)
    \/ \E p \in Pollers : processTransactionResume(p)
    \/ Tick

SpecFixed == InitFixed /\ [][NextFixed]_vars

----------------------------------------------------------------------------
(* Pollers running concurrently: the loop bodies of different pollers        *)
(* interleave at their awaits. The awaits are short against the expiry age,  *)
(* so the clock stands still here.                                           *)

\* the pollers of subscriber c1, each seeing its wallet buy mint X for 0.5 SOL
ConcPollers == {p \in Pollers : p[1] = "c1"}
ConcTxs(p) == {BuyTx(p[2], 5, "X")}

NextConc ==
    \/ \E p \in ConcPollers : \E tx \in ConcTxs(p) : pollTransaction(p, tx)
    \/ \E p \in ConcPollers : processTransaction(p)
    \/ \E p \in ConcPollers : \E d \in BOOLEAN : sendAlert(p, d)
    \/ \E p \in ConcPollers : processTransactionResume(p)

\* subscriber c1 has set requiredWallets to 2 (setWalletCount) before the
\* pollers run
InitConc ==
    /\ userSettings = [c \in Chats |->
          IF c = "c1" THEN [defaultSettings EXCEPT !.requiredWallets = 2]
          ELSE defaultSettings]
    /\ recentTransactions = EmptyMap
    /\ windows = EmptyMap
    /\ now = 0
    /\ pc = [p \in Pollers |-> "idle"]
    /\ tokenInfo = [p \in Pollers |-> NoInfo]
    /\ held = [p \in Pollers |-> NoHeld]
    /\ hist = EmptyMap
    /\ last = LastNone
    /\ InitPoller
    /\ InitPool(<<TRUE, TRUE>>)

SpecConc == InitConc /\ [][NextConc]_vars

----------------------------------------------------------------------------
(* The classifier alone, applied to every transaction of a bounded set      *)

\* the token balance entries of a transaction: those of wallet w with every
\* mint and amount, and one of another owner
Balances(w) ==
    {Balance(w, m, a) : m \in Mints, a \in 0..MaxAmt} \cup
    {Balance("other", "X", MaxAmt)}

SeqsUpTo(S, n) == UNION {[1..k -> S] : k \in 0..n}

ClassifierTxs(w) ==
    [native : Natives,
     preTokenBalances : SeqsUpTo(Balances(w), 1),
     postTokenBalances : SeqsUpTo(Balances(w), MaxPost)]

classify(chatId, walletAddress, tx, enrichment) ==
    /\ LET result == Enrich(extractTokenInfoFromTx(tx, chatId, walletAddress),
                            enrichment)
       IN last' = [LastNone EXCEPT !.op = "classify", !.wallet = walletAddress,
                                   !.threshold = userSettings[chatId].solThreshold,
                                   !.info = result.info,
                                   !.tokenName = result.tokenName,
                                   !.enrichment = enrichment,
                                   !.tx = tx]
    /\ UNCHANGED <<userSettings, recentTransactions, windows, now, pc, tokenInfo,
                   held, hist>>
    /\ UNCHANGED <<pollerVars, rpcVars>>

NextClassify ==
    \/ /\ last.op # "classify"
       /\ \E tx \in ClassifierTxs("w1") : \E e \in Enrichments :
             classify("c1", "w1", tx, e)
    \/ \E t \in Thresholds : setThreshold("c1", t)

SpecClassify == Init /\ [][NextClassify]_vars

----------------------------------------------------------------------------
(* WalletPoller: startMonitoringWallet, the interval callback it installs,  *)
(* deleteWallet, pauseMonitoring and resumeMonitoring.                       *)
(*                                                                           *)
(* A signature of an address is its position in the chain of that address,  *)
(* 1 the oldest, and its block time is that position: the clock of the       *)
(* model is one second ahead of the latest signature.                        *)
(* A task is one call of startMonitoringWallet and, once the call has        *)
(* reached setInterval, the interval it created. A tick is one invocation of *)
(* the interval callback; setInterval does not wait for the promise of the   *)
(* previous invocation, so ticks of one task may overlap. What follows the   *)
(* getTransaction of a round of the loop is pollTransaction and              *)
(* processTransaction above.                                                 *)

Min(a, b) == IF a <= b THEN a ELSE b

Reverse(s) == [i \in 1..Len(s) |-> s[Len(s) + 1 - i]]

\* the block time of a signature
BlockTime(sig) == sig

\* Math.floor(Date.now() / 1000)
NowSeconds(address) == chain[address] + 1

\* connection.getSignaturesForAddress(pubkey, {limit}): the most recent
\* signatures, newest first
getSignaturesForAddress(address, limit) ==
    LET n == chain[address]
    IN [i \in 1..Min(n, limit) |-> n + 1 - i]

\* the signatures of the fetched list that come before the cursor
RECURSIVE NewSignatures(_, _)
NewSignatures(newSigs, lastProcessedSig) ==
    IF newSigs = <<>> \/ Head(newSigs) = lastProcessedSig THEN <<>>
    ELSE <<Head(newSigs)>> \o NewSignatures(Tail(newSigs), lastProcessedSig)

\* (mutant) the cursor is set to the oldest new signature
OldestOf(newSignatures) == newSignatures[Len(newSignatures)]

\* the cursor is set to newSignatures[0]
NewestOf(newSignatures) == newSignatures[1]

\* (mutant) the loop runs from index 0 upwards
NewestFirst(newSignatures) == newSignatures

\* the loop runs from the last index down to 0
ProcessingOrder(newSignatures) == Reverse(newSignatures)

\* (mutant) no signature is skipped for its age
TooOldNever(blockTime, monitoringStartTime) == FALSE

\* sig.blockTime && sig.blockTime < monitoringStartTime
TooOld(blockTime, monitoringStartTime) == blockTime < monitoringStartTime

\* (mutant) the pause flag is not looked at
IsPausedNever(chatId) == FALSE

\* settings.isPaused
IsPaused(chatId) == isPaused[chatId]

\* the cursor of the address has changed: the last scans of its pollers are
\* no longer the state of the cursor
Invalidate(ps, address, changed) ==
    [q \in SharedPairs |-> IF changed /\ q[2] = address THEN NoScan ELSE ps[q]]

\* a scanned list, kept with a mark in front
Scanned(newSigs) == <<1>> \o newSigs

\* clearInterval: the interval fires no more; the ticks in progress keep the
\* start time they closed over
Cleared(task) == [task EXCEPT !.phase = "cleared", !.start = -1]

FreeSlots == {s \in DOMAIN ticks : ticks[s].phase = "free"}

\* the interval fires: the callback returns at once when the subscriber is
\* paused, else it asks for the most recent signatures
tickStart(t) ==
    /\ t \in DOMAIN tasks
    /\ tasks[t].phase = "live"
    /\ LET pair == tasks[t].pair IN
         IF IsPaused(pair[1])
         THEN /\ plast' = "paused"
              /\ UNCHANGED ticks
         ELSE /\ FreeSlots # {}
              /\ LET s == CHOOSE x \in FreeSlots : \A y \in FreeSlots : x <= y
                 IN ticks' = [ticks EXCEPT ![s] =
                       [NoTick EXCEPT !.pair = pair, !.start = tasks[t].start,
                                      !.phase = "fetching",
                                      !.newSigs = getSignaturesForAddress(pair[2], PollLimit)]]
              /\ plast' = "none"
    /\ UNCHANGED <<isPaused, trackedWallets, lastProcessedSignatures,
                   monitoringStartTimes, monitoringIntervals, tasks, chain,
                   fetchedUpTo, prevScan>>
    /\ UNCHANGED <<aggVars, rpcVars>>

\* the signature fetch of a tick throws: the call is made on the connection
\* itself, and the tick ends in its catch whatever the error is
tickFetchFailed(s, error) ==
    /\ ticks[s].phase = "fetching"
    /\ ticks' = [ticks EXCEPT ![s] = NoTick]
    /\ plast' = IF IsRateLimit(error) THEN "rateLimited" ELSE "fetchFailed"
    /\ UNCHANGED <<isPaused, trackedWallets, lastProcessedSignatures,
                   monitoringStartTimes, monitoringIntervals, tasks, chain,
                   fetchedUpTo, prevScan>>
    /\ UNCHANGED <<aggVars, rpcVars>>

\* the signature fetch of a tick returns: find the new signatures, move the
\* cursor, skip the signatures older than the start of monitoring
tickScan(s) ==
    /\ ticks[s].phase = "fetching"
    /\ LET pair == ticks[s].pair
           address == pair[2]
           monitoringStartTime == ticks[s].start
           newSigs == ticks[s].newSigs
           lastProcessedSig == lastProcessedSignatures[address]
           newSignatures == NewSignatures(newSigs, lastProcessedSig)
           pending == SelectSeq(ProcessingOrder(newSignatures),
                         LAMBDA g : ~TooOld(BlockTime(g), monitoringStartTime))
           cursor1 == IF newSignatures = <<>> THEN lastProcessedSig
                      ELSE NewestOf(newSignatures)
       IN /\ lastProcessedSignatures' =
                [lastProcessedSignatures EXCEPT ![address] = cursor1]
          /\ ticks' = [ticks EXCEPT ![s] =
                IF pending = <<>> THEN NoTick
                ELSE [@ EXCEPT !.phase = "processing", !.newSigs = <<>>,
                               !.pending = pending]]
          /\ prevScan' = [Invalidate(prevScan, address, cursor1 # lastProcessedSig)
                            EXCEPT ![pair] = Scanned(newSigs)]
          /\ plast' = IF prevScan[pair] = Scanned(newSigs) THEN "rescan"
                      ELSE IF Len(pending) = Len(newSignatures) THEN "none"
                      ELSE IF lastProcessedSig = 0 THEN "skippedFirst"
                      ELSE "skipped"
    /\ UNCHANGED <<isPaused, trackedWallets, monitoringStartTimes,
                   monitoringIntervals, tasks, chain, fetchedUpTo>>
    /\ UNCHANGED <<aggVars, rpcVars>>

\* (mutant) a round that does not get through ends the loop
RestAfterAbort(outcome, rest) == IF outcome = "tx" THEN rest ELSE <<>>

\* what the loop still has to do after a round: a body that is not found
\* takes the continue, a throw is caught inside the round
RestAfter(outcome, rest) == rest

\* one round of the loop of a tick: getTransaction for the next signature;
\* the body goes to the classifier ("tx"), is not found ("null"), or the
\* round throws ("error"); then the 500 ms delay
tickTransaction(s, outcome) ==
    /\ ticks[s].phase = "processing"
    /\ LET pair == ticks[s].pair
           sig == Head(ticks[s].pending)
           rest == RestAfter(outcome, Tail(ticks[s].pending))
       IN /\ fetchedUpTo' = [fetchedUpTo EXCEPT ![pair] = Max(@, sig)]
          /\ ticks' = [ticks EXCEPT ![s] =
                IF rest = <<>> THEN NoTick
                ELSE [@ EXCEPT !.pending = rest]]
    /\ plast' = CASE outcome = "tx" -> "none"
                  [] outcome = "null" -> "bodyNull"
                  [] outcome = "error" -> "bodyError"
    /\ UNCHANGED <<isPaused, trackedWallets, lastProcessedSignatures,
                   monitoringStartTimes, monitoringIntervals, tasks, chain,
                   prevScan>>
    /\ UNCHANGED <<aggVars, rpcVars>>

\* startMonitoringWallet up to its first await: clear the interval registered
\* for the pair, if any
startMonitoringWallet(address, chatId) ==
    /\ Len(tasks) + 1 \in Starts
    /\ LET key == <<chatId, address>>
           registered == monitoringIntervals[key]
           cleared == IF registered # 0
                      THEN [tasks EXCEPT ![registered] = Cleared(@)]
                      ELSE tasks
       IN /\ tasks' = Append(cleared, [pair |-> key, phase |-> "greeting",
                                       start |-> -1])
          /\ monitoringIntervals' = [monitoringIntervals EXCEPT ![key] = 0]

\* startMonitoringWallet after its first message: record the start time and
\* ask for the most recent signature
startRecorded(t) ==
    /\ t \in DOMAIN tasks
    /\ tasks[t].phase = "greeting"
    /\ LET address == tasks[t].pair[2]
           monitoringStartTime == NowSeconds(address)
       IN /\ tasks' = [tasks EXCEPT ![t].phase = "initial",
                                    ![t].start = monitoringStartTime]
          /\ monitoringStartTimes' =
                [monitoringStartTimes EXCEPT ![address] = monitoringStartTime]
    /\ plast' = "none"
    /\ UNCHANGED <<isPaused, trackedWallets, lastProcessedSignatures,
                   monitoringIntervals, ticks, chain, fetchedUpTo, prevScan>>
    /\ UNCHANGED <<aggVars, rpcVars>>

\* connection.getSignaturesForAddress(pubkey, {limit: 1}), answered when the
\* address had n signatures
InitialSigs(n) == IF n >= 1 THEN <<n>> ELSE <<>>

\* startMonitoringWallet after its signature fetch (ok: it returned): set the
\* cursor, create the interval and register it for the pair. The fetch is
\* answered at some moment between the recording of the start time and its
\* return, with the signatures the address has at that moment
startInstalled(t, ok) ==
    /\ t \in DOMAIN tasks
    /\ tasks[t].phase = "initial"
    /\ \E n \in (tasks[t].start - 1)..chain[tasks[t].pair[2]] :
       LET pair == tasks[t].pair
           address == pair[2]
           initialSigs == InitialSigs(n)
           cursor1 == IF ok /\ Len(initialSigs) > 0 THEN initialSigs[1]
                      ELSE lastProcessedSignatures[address]
       IN /\ lastProcessedSignatures' =
                [lastProcessedSignatures EXCEPT ![address] = cursor1]
          /\ prevScan' = Invalidate(prevScan, address,
                                    cursor1 # lastProcessedSignatures[address])
          /\ tasks' = [tasks EXCEPT ![t].phase = "live"]
          /\ monitoringIntervals' = [monitoringIntervals EXCEPT ![pair] = t]
    /\ plast' = "none"
    /\ UNCHANGED <<isPaused, trackedWallets, monitoringStartTimes, ticks, chain,
                   fetchedUpTo>>
    /\ UNCHANGED <<aggVars, rpcVars>>

\* processWalletAddition for one address, up to the first await of
\* startMonitoringWallet
processWalletAddition(chatId, address) ==
    /\ trackedWallets' = [trackedWallets EXCEPT ![chatId] = @ \cup {address}]
    /\ startMonitoringWallet(address, chatId)
    /\ plast' = "none"
    /\ UNCHANGED <<isPaused, lastProcessedSignatures, monitoringStartTimes, ticks,
                   chain, fetchedUpTo, prevScan>>
    /\ UNCHANGED <<aggVars, rpcVars>>

pauseMonitoring(chatId) ==
    /\ ~isPaused[chatId]
    /\ isPaused' = [isPaused EXCEPT ![chatId] = TRUE]
    /\ plast' = "none"
    /\ UNCHANGED <<trackedWallets, lastProcessedSignatures, monitoringStartTimes,
                   monitoringIntervals, tasks, ticks, chain, fetchedUpTo, prevScan>>
    /\ UNCHANGED <<aggVars, rpcVars>>

\* resumeMonitoring, up to the first await of the startMonitoringWallet it
\* calls for the subscriber's wallet
resumeMonitoring(chatId) ==
    /\ isPaused[chatId]
    /\ isPaused' = [isPaused EXCEPT ![chatId] = FALSE]
    /\ IF trackedWallets[chatId] = {}
       THEN UNCHANGED <<tasks, monitoringIntervals>>
       ELSE \E address \in trackedWallets[chatId] :
               startMonitoringWallet(address, chatId)
    /\ plast' = "none"
    /\ UNCHANGED <<trackedWallets, lastProcessedSignatures, monitoringStartTimes,
                   ticks, chain, fetchedUpTo, prevScan>>
    /\ UNCHANGED <<aggVars, rpcVars>>

\* deleteWallet up to its await: clear and unregister the interval, forget
\* the wallet and the cursor of its address
deleteWallet(chatId, address) ==
    /\ address \in trackedWallets[chatId]
    /\ LET key == <<chatId, address>>
           registered == monitoringIntervals[key]
       IN /\ tasks' = IF registered # 0
                      THEN [tasks EXCEPT ![registered] = Cleared(@)]
                      ELSE tasks
          /\ monitoringIntervals' = [monitoringIntervals EXCEPT ![key] = 0]
          /\ trackedWallets' = [trackedWallets EXCEPT ![chatId] = @ \ {address}]
          /\ lastProcessedSignatures' =
                [lastProcessedSignatures EXCEPT ![address] = 0]
          /\ prevScan' = Invalidate(prevScan, address,
                                    lastProcessedSignatures[address] # 0)
          /\ fetchedUpTo' = [fetchedUpTo EXCEPT ![key] = 0]
    /\ plast' = "none"
    /\ UNCHANGED <<isPaused, monitoringStartTimes, ticks, chain>>
    /\ UNCHANGED <<aggVars, rpcVars>>

\* the address signs a transaction
newSignature(address) ==
    /\ chain[address] < MaxChain
    /\ chain' = [chain EXCEPT ![address] = @ + 1]
    /\ plast' = "none"
    /\ UNCHANGED <<isPaused, trackedWallets, lastProcessedSignatures,
                   monitoringStartTimes, monitoringIntervals, tasks, ticks,
                   fetchedUpTo, prevScan>>
    /\ UNCHANGED <<aggVars, rpcVars>>

TxOutcomes == {"tx", "null", "error"}

NextPoller ==
    \/ \E t \in Starts : tickStart(t)
    \/ \E s \in Invocations : \E e \in Errors : tickFetchFailed(s, e)
    \/ \E s \in Invocations : tickScan(s)
    \/ \E s \in Invocations : \E o \in TxOutcomes : tickTransaction(s, o)
    \/ \E q \in PollPairs : processWalletAddition(q[1], q[2])
    \/ \E t \in Starts : startRecorded(t)
    \/ \E t \in Starts : \E ok \in BOOLEAN : startInstalled(t, ok)
    \/ \E q \in PollPairs : pauseMonitoring(q[1])
    \/ \E q \in PollPairs : resumeMonitoring(q[1])
    \/ \E q \in PollPairs : deleteWallet(q[1], q[2])
    \/ \E a \in PollAddresses : newSignature(a)

SpecPoller == Init /\ [][NextPoller]_vars

\* Two subscribers track the same address: each has its own settings object
\* and wallets Map, while lastProcessedSignatures and monitoringStartTimes
\* are the objects of defaultSettings that the copy of getUserSettings
\* shares. No subscriber pauses and no upstream call fails here.
NextShared ==
    \/ \E t \in Starts : tickStart(t)
    \/ \E s \in Invocations : tickScan(s)
    \/ \E s \in Invocations : tickTransaction(s, "tx")
    \/ \E q \in SharedPairs : processWalletAddition(q[1], q[2])
    \/ \E t \in Starts : startRecorded(t)
    \/ \E t \in Starts : startInstalled(t, TRUE)
    \/ \E q \in SharedPairs : deleteWallet(q[1], q[2])
    \/ \E a \in PollAddresses : newSignature(a)

SpecShared == Init /\ [][NextShared]_vars

\* One subscriber tracks the address and does not pause, no upstream call
\* fails, every transaction body is found, and the interval fires for a pair
\* only when no invocation of its callback is in progress. A wallet is added
\* only when every earlier call of startMonitoringWallet has returned. The
\* chain holds at most MaxChain signatures, no more than one tick fetches.
NextQuiet ==
    \/ \E t \in Starts :
          /\ t \in DOMAIN tasks
          /\ \A s \in Invocations : ticks[s].pair # tasks[t].pair
          /\ tickStart(t)
    \/ \E s \in Invocations : tickScan(s)
    \/ \E s \in Invocations : tickTransaction(s, "tx")
    \/ \E q \in PollPairs :
          /\ \A t \in DOMAIN tasks : tasks[t].phase \in {"live", "cleared"}
          /\ processWalletAddition(q[1], q[2])
    \/ \E t \in Starts : startRecorded(t)
    \/ \E t \in Starts : startInstalled(t, TRUE)
    \/ \E a \in PollAddresses : newSignature(a)

SpecQuiet == Init /\ [][NextQuiet]_vars

----------------------------------------------------------------------------
(* EndpointPool and RetryingCaller: rotateRpcEndpoint and callWithBackoff.   *)
(* An endpoint of the list is TRUE when new Connection(url) succeeds for it  *)
(* and FALSE when it throws; the constructor has built the connection of the *)
(* first one. The k-th invocation of apiFunction by a call returns result k  *)
(* or throws error k.                                                        *)

\* callWithBackoff is called with maxRetries in 0..MaxRetryArg, and at most
\* MaxRequests invocations are counted before the last call begins
MaxRetryArg == 5
MaxRequests == 4

\* the counter at which callWithBackoff rotates
RotateAt == 3

EndpointLists == {<<>>, <<TRUE>>, <<TRUE, TRUE>>, <<TRUE, FALSE, TRUE>>}

\* (mutant) the delay is not capped
BackoffUncapped(retries) == 1000 * 2^retries

\* Math.min(1000 * Math.pow(2, retries), 10000)
BackoffDelay(retries) == Min(1000 * 2^retries, 10000)

\* (mutant) one retry too many
CanRetryOnceMore(isRateLimit, retries, maxRetries) ==
    isRateLimit /\ retries <= maxRetries

\* (mutant) every error is retried
CanRetryAnyError(isRateLimit, retries, maxRetries) == retries < maxRetries

\* isRateLimit && retries < maxRetries
CanRetry(isRateLimit, retries, maxRetries) == isRateLimit /\ retries < maxRetries

\* rotateRpcEndpoint: <<currentRpcIndex, connection, rpcStats>> after it
rotateRpcEndpoint ==
    LET index == (currentRpcIndex + 1) % Len(rpcEndpoints)
    IN IF rpcEndpoints[index + 1]
       THEN <<index, index,
              [rpcStats EXCEPT !.rateLimitCount = 0,
                               !.totalRotations = @ + 1]>>
       ELSE <<index, connection, rpcStats>>

\* (mutant) the request is not counted
CountRequestNever(totalRequests) == totalRequests

\* this.rpcStats.totalRequests++, before every invocation of apiFunction
CountRequest(totalRequests) == totalRequests + 1

\* what a step of callWithBackoff found before it acted
Before(k) == <<rpcStats.rateLimitCount, currentRpcIndex, rpcStats.totalRotations,
               calls[k].invoked, calls[k].slept, connection>>

\* callWithBackoff(apiFunction, maxRetries) up to its first await: the first
\* invocation of apiFunction
callWithBackoff(k, maxRetries) ==
    /\ connection # -1
    /\ calls[k].state = "idle"
    /\ rpcStats.totalRequests < MaxRequests
    /\ rpcStats' = [rpcStats EXCEPT !.totalRequests = CountRequest(@)]
    /\ calls' = [calls EXCEPT ![k] = [NoCall EXCEPT !.state = "awaiting",
                                                    !.maxRetries = maxRetries,
                                                    !.invoked = 1]]
    /\ rlast' = [RLastNone EXCEPT !.op = "call", !.caller = k, !.before = Before(k)]
    /\ UNCHANGED <<rpcEndpoints, currentRpcIndex, connection, strikeRun>>
    /\ UNCHANGED <<aggVars, pollerVars>>

\* apiFunction returns: callWithBackoff returns its result
apiReturns(k) ==
    /\ calls[k].state = "awaiting"
    /\ calls' = [calls EXCEPT ![k].state = "returned", ![k].outcome = calls[k].invoked]
    /\ strikeRun' = 0
    /\ rlast' = [RLastNone EXCEPT !.op = "returned", !.caller = k,
                                  !.before = Before(k)]
    /\ UNCHANGED <<rpcEndpoints, currentRpcIndex, connection, rpcStats>>
    /\ UNCHANGED <<aggVars, pollerVars>>

\* apiFunction throws: count the strike and sleep for the backoff delay, or
\* throw the error on
apiThrows(k, error) ==
    /\ calls[k].state = "awaiting"
    /\ IF CanRetry(IsRateLimit(error), calls[k].retries, calls[k].maxRetries)
       THEN /\ rpcStats' = [rpcStats EXCEPT !.rateLimitCount = @ + 1]
            /\ calls' = [calls EXCEPT ![k].state = "sleeping",
                                      ![k].delay = BackoffDelay(calls[k].retries)]
       ELSE /\ calls' = [calls EXCEPT ![k].state = "threw",
                                      ![k].outcome = calls[k].invoked]
            /\ UNCHANGED rpcStats
    /\ strikeRun' = IF IsRateLimit(error) THEN Min(strikeRun + 1, RotateAt) ELSE 0
    /\ rlast' = [RLastNone EXCEPT !.op = "threw", !.caller = k,
                                  !.isRateLimit = IsRateLimit(error),
                                  !.before = Before(k)]
    /\ UNCHANGED <<rpcEndpoints, currentRpcIndex, connection>>
    /\ UNCHANGED <<aggVars, pollerVars>>

\* the backoff sleep is over: count the retry, rotate when the counter has
\* reached 3, and go round the loop: the next invocation of apiFunction, or
\* out of the loop when the retries are used up
backoffOver(k) ==
    /\ calls[k].state = "sleeping"
    /\ LET retries == calls[k].retries + 1
           rotates == rpcStats.rateLimitCount >= RotateAt
           pool == IF rotates THEN rotateRpcEndpoint
                   ELSE <<currentRpcIndex, connection, rpcStats>>
           again == retries <= calls[k].maxRetries
       IN /\ currentRpcIndex' = pool[1]
          /\ connection' = pool[2]
          /\ rpcStats' = IF again
                         THEN [pool[3] EXCEPT !.totalRequests = CountRequest(@)]
                         ELSE pool[3]
          /\ calls' = [calls EXCEPT ![k] =
                [@ EXCEPT !.retries = retries, !.slept = @ + 1, !.delay = 0,
                          !.state = IF again THEN "awaiting" ELSE "fellOut",
                          !.invoked = IF again THEN @ + 1 ELSE @]]
          /\ strikeRun' = IF rotates THEN 0 ELSE strikeRun
          /\ rlast' = [RLastNone EXCEPT !.op = IF rotates THEN "rotated" ELSE "retried",
                                        !.caller = k, !.before = Before(k)]
    /\ UNCHANGED rpcEndpoints
    /\ UNCHANGED <<aggVars, pollerVars>>

\* the caller has the outcome of its call and may call again
callSettled(k) ==
    /\ calls[k].state \in {"returned", "threw", "fellOut"}
    /\ calls' = [calls EXCEPT ![k] = NoCall]
    /\ rlast' = RLastNone
    /\ UNCHANGED <<rpcEndpoints, currentRpcIndex, connection, rpcStats, strikeRun>>
    /\ UNCHANGED <<aggVars, pollerVars>>

NextRpc ==
    \/ \E k \in Callers : \E m \in 0..MaxRetryArg : callWithBackoff(k, m)
    \/ \E k \in Callers : apiReturns(k)
    \/ \E k \in Callers : \E e \in Errors : apiThrows(k, e)
    \/ \E k \in Callers : backoffOver(k)
    \/ \E k \in Callers : callSettled(k)

InitRpc ==
    /\ InitAggregator
    /\ InitPoller
    /\ \E e \in EndpointLists : InitPool(e)

SpecRpc == InitRpc /\ [][NextRpc]_vars

----------------------------------------------------------------------------
(* What the specification says of a transaction, stated apart from the code *)

\* max(0, preBalance - postBalance)
SpecSpent(tx) ==
    IF tx.native = <<>> THEN 0
    ELSE IF tx.native[1] > tx.native[2] THEN tx.native[1] - tx.native[2] ELSE 0

OwnedPost(tx, w) ==
    {i \in DOMAIN tx.postTokenBalances : tx.postTokenBalances[i].owner = w}

\* the pre amount of a mint: that of the wallet's pre-state entry, 0 without one
SpecPreAmount(tx, w, mint) ==
    LET own == {i \in DOMAIN tx.preTokenBalances :
                   /\ tx.preTokenBalances[i].owner = w
                   /\ tx.preTokenBalances[i].mint = mint}
    IN IF own = {} THEN 0
       ELSE tx.preTokenBalances[CHOOSE i \in own : \A j \in own : j <= i].ui

SpecDelta(tx, w, i) ==
    tx.postTokenBalances[i].ui - SpecPreAmount(tx, w, tx.postTokenBalances[i].mint)

NoPositiveDelta(tx, w) == \A i \in OwnedPost(tx, w) : SpecDelta(tx, w, i) <= 0

\* the first post-state entry of the wallet with the largest delta
SpecBest(tx, w) ==
    CHOOSE i \in OwnedPost(tx, w) :
        /\ \A j \in OwnedPost(tx, w) : SpecDelta(tx, w, j) <= SpecDelta(tx, w, i)
        /\ \A j \in OwnedPost(tx, w) :
              SpecDelta(tx, w, j) = SpecDelta(tx, w, i) => i <= j

SpecAsset(tx, w) == tx.postTokenBalances[SpecBest(tx, w)].mint

QuorumMet(buyers, required, threshold) ==
    /\ Cardinality(DOMAIN buyers) >= required
    /\ SumValues(buyers) >= threshold

\* the window of one signal
Fresh(wallet, spent) == [x \in {wallet} |-> spent]

----------------------------------------------------------------------------
(* The claims *)

\* C1: with signals ingested one at a time, an ingest that leaves the window
\* with requiredWallets distinct wallets and a total spend of at least
\* solThreshold dispatches an alert for that window, the only one the window
\* ever gets, and removes the window on return; an ingest that finds no window
\* for its key creates one that holds that signal's wallet and spend only.
C1_OneAlertThenFreshWindow ==
    [][ /\ \A id \in DOMAIN hist' : hist'[id].fired <= 1
        /\ (last'.op \in {"ingest", "alerting"} /\ pc[last'.poller] = "classified") =>
             /\ last'.key \notin DOMAIN recentTransactions =>
                    last'.buyers = Fresh(last'.wallet, last'.spent)
             /\ QuorumMet(last'.buyers, last'.required, last'.threshold) =>
                    /\ last'.op = "alerting"
                    /\ hist'[recentTransactions'[last'.key]].fired = 1
        /\ (last'.op = "alerted" /\ pc[last'.poller] = "sending") =>
             /\ last'.fired = 1
             /\ last'.key \notin DOMAIN recentTransactions' ]_vars

\* C1 happens: with the default settings (3 wallets, 0.5 SOL) a window was
\* alerted once and removed
C1_Witness ==
    /\ last.op = "alerted"
    /\ last.fired = 1
    /\ last.total >= 15
    /\ userSettings["c1"] = defaultSettings

\* C2: under any interleaving of the pollers, sendAlert is invoked at most once
\* per window instance.
C2_AtMostOnceUnderInterleaving == \A id \in DOMAIN hist : hist[id].fired <= 1

\* the pooled window a buy of the wallet would give: the stored window of the
\* key with the spend added
Pooled(key, wallet, spent) ==
    LET w == IF key \in DOMAIN recentTransactions
             THEN windows[recentTransactions[key]].buyers ELSE EmptyMap
    IN [x \in DOMAIN w \cup {wallet} |->
           (IF x \in DOMAIN w THEN w[x] ELSE 0) + (IF x = wallet THEN spent ELSE 0)]

C4_TriggerIffAndKept ==
    last.op \in {"ingest", "alerting"} =>
        /\ last.invoked <=> QuorumMet(last.buyers, last.required, last.threshold)
        /\ ~last.invoked =>
              /\ last.key \in DOMAIN recentTransactions
              /\ windows[recentTransactions[last.key]].buyers = last.buyers

\* C5: in every window the number of buyers is the number of distinct wallets
\* that signalled into it and the total is the sum of the spends ingested into
\* it, so an alert for a quorum of 2 or more has at least 2 distinct wallets
\* behind it.
C5_DistinctBuyersAndSum ==
    /\ \A id \in DOMAIN windows :
          /\ Cardinality(DOMAIN windows[id].buyers) = Cardinality(hist[id].wallets)
          /\ SumValues(windows[id].buyers) = hist[id].sum
    /\ (last.op = "alerting" /\ last.required >= 2) =>
          Cardinality(hist[held[last.poller].ref].wallets) >= 2

\* C5 happens: one wallet signalled twice into a window of a subscriber who
\* requires 2 wallets, the spend is over the threshold and no alert was sent
C5_Witness ==
    \E id \in DOMAIN windows :
        /\ hist[id].signals >= 2
        /\ Cardinality(hist[id].wallets) = 1
        /\ hist[id].fired = 0
        /\ <<"c1", "X">> \in DOMAIN recentTransactions
        /\ recentTransactions[<<"c1", "X">>] = id
        /\ userSettings["c1"].requiredWallets = 2
        /\ hist[id].sum >= userSettings["c1"].solThreshold

\* C6: after every completed ingest no stored window, of any key, has been
\* without a signal for more than 1 hour.
C6_IdleWindowsSwept ==
    last.op \in {"ingest", "alerted"} =>
        \A k \in DOMAIN recentTransactions :
            now - hist[recentTransactions[k]].lastUpdated <= ExpiryMs

\* C6 happens: the ingest of one key removed the window of another key that
\* had no signal for more than 1 hour
C6_Witness ==
    /\ last.op \in {"ingest", "alerted"}
    /\ \E s \in last.swept : s.key # last.key /\ now - s.lastUpdated > ExpiryMs

\* C7: the sweep removes a window exactly when its last signal is more than
\* 1 hour old, so it never removes a window that got a signal within the hour.
C7_SweepByLastUpdated ==
    last.op \in {"ingest", "alerted"} =>
        /\ \A s \in last.swept : now - s.lastUpdated > ExpiryMs
        /\ \A k \in DOMAIN recentTransactions :
              now - hist[recentTransactions[k]].lastUpdated <= ExpiryMs

\* C8: a transaction in which no mint of the wallet has a positive delta is
\* classified "unknown" (or rejected for its spend) and dropped by the poller:
\* no window is created or changed, no alert is sent and nothing is handed to
\* the aggregator.
C8_UnknownDiscarded ==
    [][ (/\ last'.op \in {"skip", "classified"}
         /\ NoPositiveDelta(last'.tx, last'.wallet)) =>
           /\ last'.op = "skip"
           /\ IF SpecSpent(last'.tx) >= userSettings[last'.poller[1]].solThreshold
              THEN last'.info.valid /\ last'.info.tokenAddress = "unknown"
              ELSE ~last'.info.valid
           /\ UNCHANGED <<recentTransactions, windows, hist, pc, tokenInfo, held>> ]_vars

\* C8 happens: a transaction over the threshold was classified "unknown" and
\* skipped while a window was stored
C8_Witness ==
    /\ last.op = "skip"
    /\ last.info.valid
    /\ last.info.tokenAddress = "unknown"
    /\ NoPositiveDelta(last.tx, last.wallet)
    /\ DOMAIN recentTransactions # {}

\* C9: the classifier returns no signal when max(0, preBalance - postBalance)
\* is below solThreshold, whatever the token balances do.
C9_BelowThresholdRejected ==
    (last.op = "classify" /\ SpecSpent(last.tx) < last.threshold) => ~last.info.valid

\* C9 happens: 0.2 SOL spent under a threshold of 0.5 SOL with a token balance
\* that rose, and no signal
C9_Witness ==
    /\ last.op = "classify"
    /\ SpecSpent(last.tx) = 2
    /\ last.threshold = 5
    /\ ~NoPositiveDelta(last.tx, last.wallet)
    /\ ~last.info.valid

\* C10: for a transaction over the threshold in which a mint of the wallet has
\* a positive delta, the asset is the mint of the wallet's first post-state
\* entry with the largest delta and assetAmount is that delta; entries of
\* other owners do not count.
C10_LargestPositiveDelta ==
    (/\ last.op = "classify"
     /\ SpecSpent(last.tx) >= last.threshold
     /\ ~NoPositiveDelta(last.tx, last.wallet)) =>
        /\ last.info.valid
        /\ last.info.tokenAddress = SpecAsset(last.tx, last.wallet)
        /\ last.info.tokenAmount = SpecDelta(last.tx, last.wallet, SpecBest(last.tx, last.wallet))

\* C10 happens: two mints of the wallet tie on the largest delta, another
\* owner's entry shows a larger amount, and the first-listed mint is chosen
C10_Witness ==
    /\ last.op = "classify"
    /\ last.info.valid
    /\ \E i, j \in OwnedPost(last.tx, last.wallet) :
          /\ i < j
          /\ last.tx.postTokenBalances[i].mint # last.tx.postTokenBalances[j].mint
          /\ SpecDelta(last.tx, last.wallet, i) = SpecDelta(last.tx, last.wallet, j)
          /\ SpecDelta(last.tx, last.wallet, i) = last.info.tokenAmount
          /\ last.info.tokenAddress = last.tx.postTokenBalances[i].mint
    /\ \E k \in DOMAIN last.tx.postTokenBalances :
          /\ last.tx.postTokenBalances[k].owner # last.wallet
          /\ last.tx.postTokenBalances[k].ui > last.info.tokenAmount
    /\ last.info.tokenAmount > 0

----------------------------------------------------------------------------
(* Claims about the poller, under SpecPoller *)

\* what a tick leaves alone when it changes no state of the engine
PollerState == <<isPaused, trackedWallets, lastProcessedSignatures,
                 monitoringStartTimes, monitoringIntervals, tasks, chain,
                 fetchedUpTo>>

\* the ticks other than s are where they were
OthersStay(s) == \A r \in Invocations \ {s} : ticks'[r] = ticks[r]

\* C11: a tick whose signature fetch returns the list that the previous scan
\* of its poller was given, the cursor unchanged since that scan, finds no
\* new signature: it ends there, having asked for no body and changed neither
\* the cursor nor anything else of the engine.
C11_PollerIdempotence ==
    [][\A s \in Invocations :
          (/\ ticks[s].phase = "fetching"
           /\ ticks'[s] # ticks[s]
           /\ prevScan[ticks[s].pair] = Scanned(ticks[s].newSigs)) =>
              /\ ticks'[s] = NoTick
              /\ OthersStay(s)
              /\ UNCHANGED PollerState
              /\ UNCHANGED aggVars]_vars

\* C11 happens: a tick has scanned a list with signatures in it a second
\* time, the cursor unchanged in between
C11_Witness ==
    /\ plast = "rescan"
    /\ \E q \in PollPairs : Len(prevScan[q]) > 1 /\ prevScan[q][1] = 1

\* C12: once a tick has set the cursor and asked for the bodies behind it,
\* no later tick of that poller asks for the body of a signature at or behind
\* what the poller has asked for already (at-most-once).
C12_AtMostOnce ==
    \A s \in Invocations :
        ticks[s].phase = "processing" =>
            Head(ticks[s].pending) > fetchedUpTo[ticks[s].pair]

C15_PausedTickDoesNothing ==
    [][/\ \A s \in Invocations :
             (ticks[s].phase = "free" /\ ticks'[s].phase # "free") =>
                 ~isPaused[ticks'[s].pair[1]]
       /\ (plast' = "paused" /\ plast # "paused") =>
             (ticks' = ticks /\ prevScan' = prevScan /\ UNCHANGED PollerState
              /\ UNCHANGED aggVars)
       /\ (isPaused' # isPaused) => ticks' = ticks]_vars

\* C15 happens: the interval has fired for a paused subscriber while a tick
\* that started before the pause is still processing signatures
C15_Witness ==
    /\ plast = "paused"
    /\ \E s \in Invocations :
          ticks[s].phase = "processing" /\ isPaused[ticks[s].pair[1]]

\* C16: when a pair is not tracked (never added, or deleteWallet has
\* completed for it), no task is registered, starting or firing for it, and
\* its cursor and monitoring-start state are absent.
C16_DeletedMeansGone ==
    \A q \in PollPairs :
        q[2] \notin trackedWallets[q[1]] =>
            /\ monitoringIntervals[q] = 0
            /\ \A t \in DOMAIN tasks :
                  tasks[t].pair = q => tasks[t].phase = "cleared"
            /\ lastProcessedSignatures[q[2]] = 0
            /\ monitoringStartTimes[q[2]] = -1

----------------------------------------------------------------------------
(* Claims about the retrying caller and the endpoint pool, under SpecRpc *)

\* C17: a call of callWithBackoff invokes apiFunction at most maxRetries + 1
\* times and never leaves its loop without an outcome: it returns the result
\* of the invocation that succeeded, the first to do so, or throws the error
\* of its last invocation.
C17_BoundedRetries ==
    \A k \in Callers :
        /\ calls[k].invoked <= calls[k].maxRetries + 1
        /\ calls[k].state # "fellOut"
        /\ calls[k].state \in {"returned", "threw"} =>
              calls[k].outcome = calls[k].invoked

\* C17 happens: a call has used up its retries on rate-limit errors and
\* thrown the last one
C17_Witness ==
    \E k \in Callers :
        /\ calls[k].state = "threw"
        /\ calls[k].maxRetries >= 2
        /\ calls[k].invoked = calls[k].maxRetries + 1
        /\ rlast.op = "threw" /\ rlast.caller = k /\ rlast.isRateLimit

\* C18: 3 rate-limit failures in a row lead to a rotation once the backoff of
\* the third is over; a rotation happens only at 3 strikes or more, and it
\* leaves the strike counter at 0 and one rotation more on the count.
C18_ThreeStrikesRotateOnce ==
    /\ (\A k \in Callers : calls[k].state # "sleeping") => strikeRun < RotateAt
    /\ rlast.op = "rotated" =>
          /\ rlast.before[1] >= RotateAt
          /\ rpcStats.rateLimitCount = 0
          /\ rpcStats.totalRotations = rlast.before[3] + 1

\* C19: a rotation moves the index to the next endpoint modulo the size of
\* the pool (to the same one when the pool has one endpoint), resets the
\* strike counter and adds 1 to totalRotations.
C19_RotateAdvancesAndResets ==
    rlast.op = "rotated" =>
        /\ currentRpcIndex = (rlast.before[2] + 1) % Len(rpcEndpoints)
        /\ Len(rpcEndpoints) = 1 => currentRpcIndex = rlast.before[2]
        /\ rpcStats.rateLimitCount = 0
        /\ rpcStats.totalRotations = rlast.before[3] + 1

\* C20: when apiFunction throws an error that is not a rate-limit error, the
\* call throws it on at once: no further invocation, no backoff sleep, and
\* the strike counter, the index and totalRotations as they were.
C20_OtherErrorsRethrown ==
    (rlast.op = "threw" /\ ~rlast.isRateLimit) =>
        LET k == rlast.caller IN
        /\ calls[k].state = "threw"
        /\ calls[k].outcome = rlast.before[4]
        /\ calls[k].invoked = rlast.before[4]
        /\ calls[k].slept = rlast.before[5]
        /\ rpcStats.rateLimitCount = rlast.before[1]
        /\ currentRpcIndex = rlast.before[2]
        /\ rpcStats.totalRotations = rlast.before[3]

\* C20 happens: a call that had retried a rate-limit error, and had retries
\* left, met another error and threw it
C20_Witness ==
    /\ rlast.op = "threw"
    /\ ~rlast.isRateLimit
    /\ calls[rlast.caller].state = "threw"
    /\ calls[rlast.caller].retries > 0
    /\ calls[rlast.caller].retries < calls[rlast.caller].maxRetries
    /\ rpcStats.rateLimitCount > 0

\* C22: the connection in use is the one built for the endpoint at
\* currentRpcIndex, at every point where another task can run.
C22_ConnectionOfActiveIndex == connection = currentRpcIndex

\* C23: a tracker that has been constructed has an endpoint list that is not
\* empty and an index within it; with no endpoint configured the constructor
\* has built no connection, and nothing is called or polled.
C23_PoolNeverEmpty ==
    /\ connection # -1 =>
          /\ Len(rpcEndpoints) > 0
          /\ currentRpcIndex \in 0..(Len(rpcEndpoints) - 1)
    /\ Len(rpcEndpoints) = 0 =>
          /\ connection = -1
          /\ rpcStats.totalRequests = 0
          /\ \A k \in Callers : calls[k].state = "idle"
          /\ tasks = <<>>

\* C23 happens: a rotation from the last endpoint of a pool of several has
\* wrapped around to the first
C23_Witness ==
    /\ rlast.op = "rotated"
    /\ Len(rpcEndpoints) >= 2
    /\ rlast.before[2] = Len(rpcEndpoints) - 1
    /\ currentRpcIndex = 0

\* C29: every rate-limit failure of apiFunction adds exactly 1 to
\* rateLimitCount, whichever attempt of whichever call it is.
C29_EveryRateLimitCounted ==
    (rlast.op = "threw" /\ rlast.isRateLimit) =>
        rpcStats.rateLimitCount = rlast.before[1] + 1

\* the delays the specification lists, for attempt 0, 1, 2, 3
SpecDelays == <<1000, 2000, 4000, 8000>>

SpecDelay(attempt) ==
    IF attempt < Len(SpecDelays) THEN SpecDelays[attempt + 1] ELSE 10000

\* C30: the sleep before retry number attempt lasts 1000, 2000, 4000, 8000
\* and then 10000 ms for every later attempt; the delays never decrease and
\* never exceed 10000.
C30_BackoffDelays ==
    \A k \in Callers :
        calls[k].state = "sleeping" =>
            /\ calls[k].delay = SpecDelay(calls[k].retries)
            /\ calls[k].delay <= 10000
            /\ calls[k].retries > 0 =>
                  BackoffDelay(calls[k].retries - 1) <= calls[k].delay

\* C30 happens: a call sleeps before its fifth retry, for the capped delay
C30_Witness ==
    \E k \in Callers :
        /\ calls[k].state = "sleeping"
        /\ calls[k].retries = 4
        /\ calls[k].delay = 10000

----------------------------------------------------------------------------
(* Further claims about the poller, under SpecPoller *)

\* C21: a rate-limit failure of an upstream call of a tick is handled by
\* callWithBackoff: it is counted as a strike and the tick stays in progress
\* to retry the call.
C21_TickCallsRetried ==
    [][\A s \in Invocations :
          (ticks'[s] # ticks[s] /\ plast' = "rateLimited") =>
              /\ ticks'[s].phase # "free"
              /\ rpcStats'.rateLimitCount = rpcStats.rateLimitCount + 1]_vars

\* C24: a round of the loop that finds no body, or that throws, leaves the
\* tick with the remaining signatures to process; a signature fetch that
\* throws ends that tick alone; either way the other ticks, the tasks, the
\* registered intervals and the cursors are as they were, so the interval
\* fires again.
C24_FailureContained ==
    [][\A s \in Invocations :
          /\ (/\ ticks[s].phase = "processing"
              /\ ticks'[s] # ticks[s]
              /\ plast' \in {"bodyNull", "bodyError"}) =>
                 /\ ticks'[s] = IF Len(ticks[s].pending) = 1 THEN NoTick
                                ELSE [ticks[s] EXCEPT !.pending = Tail(@)]
                 /\ OthersStay(s)
                 /\ UNCHANGED <<tasks, monitoringIntervals,
                                lastProcessedSignatures, isPaused>>
          /\ (/\ ticks[s].phase = "fetching"
              /\ ticks'[s] # ticks[s]
              /\ plast' \in {"fetchFailed", "rateLimited"}) =>
                 /\ ticks'[s] = NoTick
                 /\ OthersStay(s)
                 /\ UNCHANGED <<tasks, monitoringIntervals,
                                lastProcessedSignatures, isPaused>>]_vars

\* C24 happens: a round of a tick has thrown, the tick has another signature
\* to process, and the interval of its poller is still registered and live
C24_Witness ==
    /\ plast = "bodyError"
    /\ \E s \in Invocations :
          /\ ticks[s].phase = "processing"
          /\ monitoringIntervals[ticks[s].pair] # 0
          /\ tasks[monitoringIntervals[ticks[s].pair]].phase = "live"

\* C28: the monitoringStartTime recorded for a wallet does not change while
\* the wallet stays tracked.
C28_StartTimeSetOnce ==
    [][\A q \in PollPairs :
          (/\ q[2] \in trackedWallets[q[1]]
           /\ q[2] \in trackedWallets'[q[1]]
           /\ monitoringStartTimes[q[2]] # -1) =>
              monitoringStartTimes'[q[2]] = monitoringStartTimes[q[2]]]_vars

----------------------------------------------------------------------------
(* Further claims about the aggregator *)

\* C25: when the alert of a window is not delivered, processTransaction goes
\* on as after a delivery: the window is removed and nothing of it is kept
\* for another attempt, it has been dispatched once, and the poller is back
\* at its loop, free to ingest.
C25_NoRetryAfterFailedDelivery ==
    [][\A p \in Pollers :
          (pc[p] = "failed" /\ pc'[p] # "failed") =>
              /\ pc'[p] = "idle"
              /\ held'[p] = NoHeld
              /\ held[p].key \notin DOMAIN recentTransactions'
              /\ held[p].ref \notin DOMAIN windows'
              /\ last'.op = "alerted" /\ last'.fired = 1
              /\ \A id \in DOMAIN hist' : hist'[id].fired <= 1]_vars

\* C25 happens: processTransaction has returned after an alert that was not
\* delivered, and the key has no window
C25_Witness ==
    /\ last.op = "alerted"
    /\ ~last.delivered
    /\ last.key \notin DOMAIN recentTransactions
    /\ pc[last.poller] = "idle"

\* C27: under any interleaving, a processTransaction that finishes after its
\* alert removes the window it triggered on, never a window created for the
\* key since.
C27_OnlyOwnWindowRemoved ==
    [][\A p \in ConcPollers :
          (/\ pc[p] \in {"sending", "failed"}
           /\ pc'[p] = "idle"
           /\ held[p].key \in DOMAIN recentTransactions) =>
              recentTransactions[held[p].key] = held[p].ref]_vars

----------------------------------------------------------------------------
(* A further claim about the classifier, under SpecClassify *)

\* asset, solSpent and assetAmount of a result, or that it is null
Signal(info) == <<info.valid, info.tokenAddress, info.solAmount, info.tokenAmount>>

\* C26: the signal a classification returns is what the transaction, the
\* threshold and the wallet address give, the same however the metadata
\* lookups end; a transaction that is a buy is returned as one.
C26_EnrichmentIndependent ==
    last.op = "classify" =>
        LET plain == extractTokenInfoFromTx(last.tx, "c1", last.wallet) IN
        /\ Signal(last.info) = Signal(plain)
        /\ \A e \in Enrichments : Signal(Enrich(plain, e).info) = Signal(last.info)
        /\ IsBuy(plain) => IsBuy(last.info)

\* C26 happens: a buy has been classified while a metadata lookup threw
C26_Witness ==
    /\ last.op = "classify"
    /\ last.enrichment = "throws"
    /\ IsBuy(last.info)
    /\ last.tokenName = "Unknown"

----------------------------------------------------------------------------
(* A further claim about the retrying caller, under SpecRpc *)

\* C31: totalRequests never decreases, and it grows by 1 with every
\* invocation of apiFunction that a call makes, the first and the retries,
\* before the outcome of the invocation is known.
C31_TotalRequestsCounts ==
    [][/\ rpcStats'.totalRequests >= rpcStats.totalRequests
       /\ \A k \in Callers :
             calls'[k].invoked = calls[k].invoked + 1 =>
                 /\ calls'[k].state = "awaiting"
                 /\ rpcStats'.totalRequests = rpcStats.totalRequests + 1]_vars

\* C31 happens: a call that was retried has thrown, and each of its
\* invocations was counted
C31_Witness ==
    \E k \in Callers :
        /\ calls[k].state = "threw"
        /\ calls[k].invoked >= 2
        /\ rpcStats.totalRequests >= calls[k].invoked

----------------------------------------------------------------------------
(* Claims about the tasks and ticks of a poller, under SpecPoller *)

\* the tasks whose interval is firing for a pair
LiveTasks(q) == {t \in DOMAIN tasks : tasks[t].pair = q /\ tasks[t].phase = "live"}

\* the invocations of the interval callback in progress for a pair
TicksInProgress(q) ==
    {s \in Invocations : ticks[s].phase # "free" /\ ticks[s].pair = q}

\* C33: at most one interval is firing for a pair, and an interval that is
\* firing is the one registered for the pair in monitoringIntervals.
C33_OneRegisteredTask ==
    \A q \in PollPairs :
        /\ Cardinality(LiveTasks(q)) <= 1
        /\ \A t \in LiveTasks(q) : monitoringIntervals[q] = t

\* C34: at most one invocation of the interval callback is in progress for a
\* pair.
C34_TicksDoNotOverlap ==
    \A q \in PollPairs : Cardinality(TicksInProgress(q)) <= 1

----------------------------------------------------------------------------
(* A claim about two subscribers that track one address, under SpecShared *)

\* a step is none of the subscriber's of pair r: its wallets, its tasks and
\* its ticks are as they were
OwnUnchanged(r) ==
    /\ trackedWallets'[r[1]] = trackedWallets[r[1]]
    /\ \A t \in DOMAIN tasks' :
          tasks'[t].pair = r => (t \in DOMAIN tasks /\ tasks'[t] = tasks[t])
    /\ \A t \in DOMAIN tasks : tasks[t].pair = r => tasks'[t] = tasks[t]
    /\ \A s \in Invocations :
          (ticks[s].pair = r \/ ticks'[s].pair = r) => ticks'[s] = ticks[s]

\* C32: while a subscriber tracks an address and its interval is firing, a
\* step that is not its own (a tick, an addition or a deletion of another
\* subscriber) leaves the cursor and the monitoring start time that its
\* poller reads for the address as they were.
C32_CursorIsolation ==
    [][\A r \in SharedPairs :
          (/\ r[2] \in trackedWallets[r[1]]
           /\ LiveTasks(r) # {}
           /\ OwnUnchanged(r)) =>
              /\ lastProcessedSignatures'[r[2]] = lastProcessedSignatures[r[2]]
              /\ monitoringStartTimes'[r[2]] = monitoringStartTimes[r[2]]]_vars

----------------------------------------------------------------------------
(* Further claims about the windows of the aggregator *)

\* C35: an ingest that dispatches an alert counts the signals of a window
\* that is not older than the expiry age: a window older than that gives
\* nothing to the trigger or to the payload.
C35_NoStalePooling ==
    last.op = "alerting" =>
        \/ now - windows[held[last.poller].ref].firstSeen <= ExpiryMs
        \/ last.buyers = Fresh(last.wallet, last.spent)

----------------------------------------------------------------------------
(* Claims about the aggregator under unchanged settings, under SpecFixed *)

\* C37: every signal the poller passes to the aggregator spends at least the
\* subscriber's threshold and gains a positive amount of the token; with the
\* settings unchanged, the total spent of the window reaches the threshold on
\* every ingest, and the alert is invoked exactly when the number of buyers
\* reaches the required number of wallets.
C37_SignalsMeetThreshold ==
    /\ last.op = "classified" =>
          /\ last.info.solAmount >= userSettings[last.poller[1]].solThreshold
          /\ last.info.tokenAmount > 0
    /\ last.op \in {"ingest", "alerting"} =>
          /\ last.spent >= last.threshold
          /\ SumValues(last.buyers) >= last.threshold
          /\ last.op = "alerting" <=>
                Cardinality(DOMAIN last.buyers) >= last.required
          /\ Cardinality(DOMAIN last.buyers) <= last.required

\* an ingest that brings the number of buyers to the required number, of a
\* subscriber that requires more than one
C37_Witness ==
    /\ last.op = "alerting"
    /\ last.required >= 2
    /\ Cardinality(DOMAIN last.buyers) = last.required
    /\ SumValues(last.buyers) >= last.threshold

\* C38: with sequential ingests and unchanged settings, after every completed
\* ingest no stored window meets the trigger condition of its subscriber and
\* no stored window is older than one hour.
C38_StoredWindowsWait ==
    last.op \in {"ingest", "alerted"} =>
        \A key \in DOMAIN recentTransactions :
            LET data == windows[recentTransactions[key]] IN
            /\ ~QuorumMet(data.buyers, userSettings[key[1]].requiredWallets,
                          userSettings[key[1]].solThreshold)
            /\ now - data.timestamp <= ExpiryMs

\* a completed ingest whose cleanup removed a window and that leaves a window
\* waiting for buyers
C38_Witness ==
    /\ last.op = "ingest"
    /\ last.swept # {}
    /\ \E key \in DOMAIN recentTransactions :
          Cardinality(DOMAIN windows[recentTransactions[key]].buyers)
              < userSettings[key[1]].requiredWallets

----------------------------------------------------------------------------
(* A claim about the signatures a poller hands on, under SpecQuiet *)

\* the newest signature of the list the last tick of a pair scanned
ScannedUpTo(q) == IF Len(prevScan[q]) >= 2 THEN prevScan[q][2] ELSE 0

\* C36: with at most 2 new signatures between consecutive ticks, the
\* subscriber not paused, no overlapping ticks and every body found, every
\* signature with a block time at or after the start of monitoring is handed
\* to the classifier: once a tick of a live task has scanned a list and has
\* ended, the body of the newest signature of that list has been asked for if
\* its block time is at or after the start time of the task.
C36_EveryNewSignatureHanded ==
    \A t \in DOMAIN tasks :
        LET q == tasks[t].pair IN
        (/\ tasks[t].phase = "live"
         /\ TicksInProgress(q) = {}
         /\ prevScan[q] # NoScan
         /\ BlockTime(ScannedUpTo(q)) >= tasks[t].start)
        => fetchedUpTo[q] >= ScannedUpTo(q)

====
